---- MODULE Spec2Model ----
(***************************************************************************)
(* Model of run.py: the sales report pipeline.                             *)
(*                                                                         *)
(* One process invocation runs the module-level setup (three mkdir calls,  *)
(* logging.basicConfig) and then main(): ensure_sample_csv,                *)
(* make_summary_tables, export_excel, each of which may raise.  The files  *)
(* input/sales.csv and output/report.xlsx outlive the process, so a        *)
(* behaviour is a sequence of invocations over the same two files.         *)
(*                                                                         *)
(* Text (month keys, product labels) is held as sequences of character     *)
(* codes so that string order is the order the code sorts by.  Money       *)
(* amounts are held in units of 1/Scale so that a fractional unit_price    *)
(* and the int() coercion of the grand total are both represented.         *)
(***************************************************************************)
EXTENDS Integers, Sequences, FiniteSets, TLC

VARIABLES
    pc,          \* position of the running process in run.py
    run,         \* number of the current process invocation
    csv,         \* the file input/sales.csv
    out,         \* the file output/report.xlsx
    monthly,     \* main's local: monthly summary table
    by_product,  \* main's local: product summary table
    total,       \* main's local: grand total
    wb,          \* export_excel's local: the openpyxl workbook in memory
    log,         \* the records this process has logged, in order
    exc,         \* the stage whose exception is or was in flight, or "None"
    calls,       \* how often this process has called each stage
    exitcode     \* exit status of the process (meaningful when pc = "exited")

vars == <<pc, run, csv, out, monthly, by_product, total, wb, log, exc, calls, exitcode>>

-----------------------------------------------------------------------------
(* Bounds *)

MaxRows == 3      \* longest input table drawn for the aggregator
MaxRuns == 2      \* process invocations in one behaviour

-----------------------------------------------------------------------------
(* Text as character codes *)

Apple  == <<65, 112, 112, 108, 101>>
Banana == <<66, 97, 110, 97, 110, 97>>
Orange == <<79, 114, 97, 110, 103, 101>>
NaN    == <<>>                  \* an empty CSV field, read by pandas as NaN
NaTStr == <<78, 97, 84>>        \* "NaT"

Digit(d) == 48 + d
Hyphen == <<45>>

\* Lexicographic order on strings (Python's str comparison).
RECURSIVE StrLess(_, _)
StrLess(s, t) ==
    IF s = <<>> THEN t # <<>>
    ELSE IF t = <<>> THEN FALSE
    ELSE IF Head(s) # Head(t) THEN Head(s) < Head(t)
    ELSE StrLess(Tail(s), Tail(t))

-----------------------------------------------------------------------------
(* Transaction rows *)

Scale == 2        \* amounts are counted in halves of the currency unit

NaT == [y |-> 0, m |-> 0, d |-> 0]     \* an empty date field after to_datetime

Date(y, m, d) == [y |-> y, m |-> m, d |-> d]

Row(dt, p, q, u) == [date |-> dt, product |-> p, qty |-> q, unit_price |-> u]

\* The seven rows ensure_sample_csv writes.
SampleRows == <<
    Row(Date(2026, 1, 1), Apple,  2,  120 * Scale),
    Row(Date(2026, 1, 1), Orange, 5,  80 * Scale),
    Row(Date(2026, 1, 2), Apple,  1,  120 * Scale),
    Row(Date(2026, 1, 3), Banana, 10, 50 * Scale),
    Row(Date(2026, 1, 3), Orange, 3,  80 * Scale),
    Row(Date(2026, 2, 1), Apple,  4,  120 * Scale),
    Row(Date(2026, 2, 2), Banana, 6,  50 * Scale) >>

-----------------------------------------------------------------------------
(* make_summary_tables *)

\* The date in full, "YYYY-MM-DD".
MonthStrFullDate(dt) ==
    IF dt = NaT THEN NaTStr
    ELSE << Digit(dt.y \div 1000), Digit((dt.y \div 100) % 10),
            Digit((dt.y \div 10) % 10), Digit(dt.y % 10) >>
         \o Hyphen
         \o << Digit(dt.m \div 10), Digit(dt.m % 10) >>
         \o Hyphen
         \o << Digit(dt.d \div 10), Digit(dt.d % 10) >>

\* df["date"].dt.to_period("M").astype(str): "YYYY-MM", or "NaT" for a missing date.
MonthStr(dt) ==
    IF dt = NaT THEN NaTStr
    ELSE << Digit(dt.y \div 1000), Digit((dt.y \div 100) % 10),
            Digit((dt.y \div 10) % 10), Digit(dt.y % 10) >>
         \o Hyphen
         \o << Digit(dt.m \div 10), Digit(dt.m % 10) >>

\* df["sales"] = df["qty"] * df["unit_price"]
Sales(r) == r.qty * r.unit_price

\* One pass of a groupby(...).sum(): add sales s under key k.
AddToGroup(groups, k, s) ==
    IF \E i \in 1..Len(groups) : groups[i].key = k
    THEN [i \in 1..Len(groups) |->
            IF groups[i].key = k
            THEN [key |-> k, sales |-> groups[i].sales + s]
            ELSE groups[i]]
    ELSE Append(groups, [key |-> k, sales |-> s])

\* groupby drops the rows whose key is NaN (dropna=True is the default).
RECURSIVE GroupSum(_, _)
GroupSum(keys, sales) ==
    IF keys = <<>> THEN <<>>
    ELSE LET n    == Len(keys)
             rest == GroupSum(SubSeq(keys, 1, n - 1), SubSeq(sales, 1, n - 1))
         IN  IF keys[n] = NaN THEN rest
             ELSE AddToGroup(rest, keys[n], sales[n])

\* Stable insertion of x into a sequence ordered by ascending key.
RECURSIVE InsertByKey(_, _)
InsertByKey(s, x) ==
    IF s = <<>> THEN <<x>>
    ELSE IF StrLess(x.key, Head(s).key) THEN <<x>> \o s
    ELSE <<Head(s)>> \o InsertByKey(Tail(s), x)

\* Ascending by key string, equal keys in their given order.
RECURSIVE SortByKey(_)
SortByKey(s) ==
    IF s = <<>> THEN <<>>
    ELSE InsertByKey(SortByKey(SubSeq(s, 1, Len(s) - 1)), s[Len(s)])

\* df.groupby(key, as_index=False)["sales"].sum(): one row per key, keys ascending
\* (sort=True is the default).
GroupBy(keys, sales) == SortByKey(GroupSum(keys, sales))

\* sort_values("month")
SortValuesAsc(s) == SortByKey(s)

\* Stable insertion of x into a sequence ordered by descending sales.
RECURSIVE InsertBySalesDesc(_, _)
InsertBySalesDesc(s, x) ==
    IF s = <<>> THEN <<x>>
    ELSE IF x.sales > Head(s).sales THEN <<x>> \o s
    ELSE <<Head(s)>> \o InsertBySalesDesc(Tail(s), x)

SortValuesNoSort(s) == s

\* sort_values("sales", ascending=False); equal sums keep their group order.
RECURSIVE SortValuesDesc(_)
SortValuesDesc(s) ==
    IF s = <<>> THEN <<>>
    ELSE InsertBySalesDesc(SortValuesDesc(SubSeq(s, 1, Len(s) - 1)), s[Len(s)])

RECURSIVE SumSeq(_)
SumSeq(s) == IF s = <<>> THEN 0 ELSE Head(s) + SumSeq(Tail(s))

\* int(x) of an amount held in units of 1/Scale: truncation towards zero.
IntOf(x) == IF x >= 0 THEN x \div Scale ELSE -((-x) \div Scale)

SalesColumn(rows) == [i \in 1..Len(rows) |-> Sales(rows[i])]

Monthly(rows) ==
    LET g == SortValuesAsc(GroupBy([i \in 1..Len(rows) |-> MonthStr(rows[i].date)],
                                   SalesColumn(rows)))
    IN  [i \in 1..Len(g) |-> [month |-> g[i].key, monthly_sales |-> g[i].sales]]

ByProduct(rows) ==
    LET g == SortValuesDesc(GroupBy([i \in 1..Len(rows) |-> rows[i].product],
                                    SalesColumn(rows)))
    IN  [i \in 1..Len(g) |-> [product |-> g[i].key, product_sales |-> g[i].sales]]

Total(rows) == IntOf(SumSeq(SalesColumn(rows)))

-----------------------------------------------------------------------------
(* The two files *)

CsvFile(rows, r) == [exists |-> TRUE, parsable |-> TRUE, rows |-> rows, by |-> r]

\* A file pandas cannot turn into the table (no header, bad date, bad number).
BadCsv(r) == [exists |-> TRUE, parsable |-> FALSE, rows |-> <<>>, by |-> r]

AbsentCsv == [exists |-> FALSE, parsable |-> FALSE, rows |-> <<>>, by |-> 0]

\* What df.to_csv leaves behind when it raises: nothing (the open failed), a
\* zero-byte file, or the header and the first k < 7 rows.
ToCsvFailed(r) ==
    {AbsentCsv, BadCsv(r)}
        \cup {CsvFile(SubSeq(SampleRows, 1, k), r) : k \in 0..(Len(SampleRows) - 1)}

Workbook(sheets, styled, b3) == [sheets |-> sheets, styled |-> styled, B3 |-> b3]

EmptyWb == Workbook(<<>>, FALSE, 0)

XlsxFile(w, r) == [state |-> "ok", wb |-> w, by |-> r]

AbsentXlsx == [state |-> "absent", wb |-> EmptyWb, by |-> 0]

\* A file opened for writing (truncated) and never completed.
BrokenXlsx(r) == [state |-> "corrupt", wb |-> EmptyWb, by |-> r]

ReportSheets == <<"Summary", "Monthly", "ByProduct">>

CreateSheetAppend(sheets, title, index) == Append(sheets, title)

\* wb.create_sheet(title, index)
CreateSheet(sheets, title, index) ==
    SubSeq(sheets, 1, index) \o <<title>> \o SubSeq(sheets, index + 1, Len(sheets))

-----------------------------------------------------------------------------
(* The process *)

NoCalls == [ensure_sample_csv |-> 0, make_summary_tables |-> 0, export_excel |-> 0]

\* The state a fresh process starts in (the files are as they were left).
Fresh(r) ==
    [pc |-> "mkdir_input", run |-> r, monthly |-> <<>>, by_product |-> <<>>,
     total |-> 0, wb |-> EmptyWb, log |-> <<>>, exc |-> "None",
     calls |-> NoCalls, exitcode |-> 0]

\* Input files a user may have put in place before the first run.
UserCsv ==
    { AbsentCsv,
      BadCsv(0),
      CsvFile(<<>>, 0),
      CsvFile(SampleRows, 0),
      CsvFile(<< Row(Date(2026, 3, 5), Banana, 1, 1),
                 Row(NaT, NaN, 2, 3 * Scale) >>, 0) }

UserXlsx == { AbsentXlsx, XlsxFile(Workbook(ReportSheets, TRUE, 7), 0) }

Init ==
    /\ pc = Fresh(1).pc
    /\ run = Fresh(1).run
    /\ monthly = Fresh(1).monthly
    /\ by_product = Fresh(1).by_product
    /\ total = Fresh(1).total
    /\ wb = Fresh(1).wb
    /\ log = Fresh(1).log
    /\ exc = Fresh(1).exc
    /\ calls = Fresh(1).calls
    /\ exitcode = Fresh(1).exitcode
    /\ csv \in UserCsv
    /\ out \in UserXlsx

locals == <<monthly, by_product, total, wb>>
files == <<csv, out>>

Goto(l) == pc' = l /\ UNCHANGED <<run, exitcode>>

Logged(msg) == log' = Append(log, msg)

Called(f) == calls' = [calls EXCEPT ![f] = @ + 1]

\* An exception that reaches the top of the module: traceback, exit status 1.
Crash ==
    /\ pc' = "exited"
    /\ exitcode' = 1
    /\ UNCHANGED <<run, files, locals, log, exc, calls>>

\* INPUT_DIR.mkdir(exist_ok=True); it cannot fail when the directory is there.
MkdirInput ==
    /\ pc = "mkdir_input"
    /\ \/ Goto("mkdir_output") /\ UNCHANGED <<files, locals, log, exc, calls>>
       \/ ~csv.exists /\ Crash

MkdirOutput ==
    /\ pc = "mkdir_output"
    /\ \/ Goto("mkdir_logs") /\ UNCHANGED <<files, locals, log, exc, calls>>
       \/ out.state = "absent" /\ Crash

MkdirLogs ==
    /\ pc = "mkdir_logs"
    /\ \/ Goto("basicConfig") /\ UNCHANGED <<files, locals, log, exc, calls>>
       \/ Crash

\* logging.basicConfig(...): FileHandler opens logs/run.log and may raise.
BasicConfig ==
    /\ pc = "basicConfig"
    /\ \/ Goto("main") /\ UNCHANGED <<files, locals, log, exc, calls>>
       \/ Crash

\* logging.info("===== レポート作成 開始 =====")
MainStart ==
    /\ pc = "main"
    /\ Logged("start")
    /\ Goto("ensure_sample_csv")
    /\ UNCHANGED <<files, locals, exc, calls>>

\* A stage raises: control passes to main's except clause.
Raise(stage) ==
    /\ exc' = stage
    /\ Goto("except")

EnsureSampleCsvOverwrite ==
    /\ pc = "ensure_sample_csv"
    /\ Called("ensure_sample_csv")
    /\ \/ /\ csv' = CsvFile(SampleRows, run)
          /\ Logged("sample_created")
          /\ Goto("log_target")
          /\ UNCHANGED exc
       \/ /\ csv' \in ToCsvFailed(run)
          /\ Raise("ensure_sample_csv")
          /\ UNCHANGED log
    /\ UNCHANGED <<out, locals>>

EnsureSampleCsv ==
    /\ pc = "ensure_sample_csv"
    /\ Called("ensure_sample_csv")
    /\ \/ /\ csv.exists
          /\ Goto("log_target")
          /\ UNCHANGED <<csv, log, exc>>
       \/ /\ ~csv.exists
          /\ csv' = CsvFile(SampleRows, run)
          /\ Logged("sample_created")
          /\ Goto("log_target")
          /\ UNCHANGED exc
       \/ /\ ~csv.exists
          /\ csv' \in ToCsvFailed(run)
          /\ Raise("ensure_sample_csv")
          /\ UNCHANGED log
    /\ UNCHANGED <<out, locals>>

\* logging.info("処理対象CSV：%s", CSV_PATH.name)
LogTarget ==
    /\ pc = "log_target"
    /\ Logged("target_csv")
    /\ Goto("make_summary_tables")
    /\ UNCHANGED <<files, locals, exc, calls>>

RaisesOnEmpty(f) == ~f.parsable \/ f.rows = <<>>

\* Whether make_summary_tables raises on the file (read_csv, to_datetime, int).
Raises(f) == ~f.parsable

MakeSummaryTablesOk ==
    /\ pc = "make_summary_tables"
    /\ ~Raises(csv)
    /\ Called("make_summary_tables")
    /\ monthly' = Monthly(csv.rows)
    /\ by_product' = ByProduct(csv.rows)
    /\ total' = Total(csv.rows)
    /\ Goto("ExcelWriter")
    /\ UNCHANGED <<files, wb, log, exc>>

MakeSummaryTablesRaise ==
    /\ pc = "make_summary_tables"
    /\ Raises(csv)
    /\ Called("make_summary_tables")
    /\ Raise("make_summary_tables")
    /\ UNCHANGED <<files, locals, log>>

MakeSummaryTables == MakeSummaryTablesOk \/ MakeSummaryTablesRaise

-----------------------------------------------------------------------------
(* export_excel *)

\* with pd.ExcelWriter(out_xlsx) as writer: the two to_excel calls and the save
\* on leaving the block.  A failure leaves the path as it was (the open failed)
\* or holding a truncated file.
ExcelWriter ==
    /\ pc = "ExcelWriter"
    /\ Called("export_excel")
    /\ \/ /\ out' = XlsxFile(Workbook(<<"Monthly", "ByProduct">>, FALSE, 0), run)
          /\ Goto("load_workbook")
          /\ UNCHANGED exc
       \/ /\ out' \in {out, BrokenXlsx(run)}
          /\ Raise("export_excel")
    /\ UNCHANGED <<csv, locals, log>>

\* load_workbook, style_sheet and apply_number_format on both sheets, then the
\* Summary sheet: all in memory, the file is only read.
LoadWorkbook ==
    /\ pc = "load_workbook"
    /\ \/ /\ out.state = "ok"
          /\ wb' = Workbook(CreateSheet(out.wb.sheets, "Summary", 0), TRUE, total)
          /\ Goto("wb_save")
          /\ UNCHANGED exc
       \/ /\ Raise("export_excel")
          /\ UNCHANGED wb
    /\ UNCHANGED <<files, monthly, by_product, total, log, calls>>

WbSaveSwallow ==
    /\ pc = "wb_save"
    /\ \/ out' = XlsxFile(wb, run)
       \/ out' \in {out, BrokenXlsx(run)}
    /\ Goto("log_done")
    /\ UNCHANGED <<csv, locals, log, exc, calls>>

\* wb.save(out_xlsx)
WbSave ==
    /\ pc = "wb_save"
    /\ \/ /\ out' = XlsxFile(wb, run)
          /\ Goto("log_done")
          /\ UNCHANGED exc
       \/ /\ out' \in {out, BrokenXlsx(run)}
          /\ Raise("export_excel")
    /\ UNCHANGED <<csv, locals, log, calls>>

-----------------------------------------------------------------------------
(* main, continued *)

\* logging.info("Excel出力完了：%s", OUT_XLSX)
LogDone ==
    /\ pc = "log_done"
    /\ Logged("excel_done")
    /\ Goto("log_ok")
    /\ UNCHANGED <<files, locals, exc, calls>>

\* logging.info("正常終了しました")
LogOk ==
    /\ pc = "log_ok"
    /\ Logged("ok")
    /\ Goto("finally")
    /\ UNCHANGED <<files, locals, exc, calls>>

ExceptClauseReraise ==
    /\ pc = "except"
    /\ log' = log \o <<"exception", "end">>
    /\ pc' = "exited"
    /\ exitcode' = 1
    /\ UNCHANGED <<run, files, locals, exc, calls>>

ExceptClauseRetry ==
    /\ pc = "except"
    /\ Logged("exception")
    /\ Goto("ensure_sample_csv")
    /\ UNCHANGED <<files, locals, exc, calls>>

\* except Exception: logging.exception("異常終了しました")
ExceptClause ==
    /\ pc = "except"
    /\ Logged("exception")
    /\ Goto("finally")
    /\ UNCHANGED <<files, locals, exc, calls>>

\* finally: logging.info("===== 処理終了 ====="); main returns, the process exits.
FinallyClause ==
    /\ pc = "finally"
    /\ Logged("end")
    /\ pc' = "exited"
    /\ exitcode' = 0
    /\ UNCHANGED <<run, files, locals, exc, calls>>

\* The program is started again over the files the last run left.
Rerun ==
    /\ pc = "exited"
    /\ run < MaxRuns
    /\ pc' = Fresh(run + 1).pc
    /\ run' = Fresh(run + 1).run
    /\ monthly' = Fresh(run + 1).monthly
    /\ by_product' = Fresh(run + 1).by_product
    /\ total' = Fresh(run + 1).total
    /\ wb' = Fresh(run + 1).wb
    /\ log' = Fresh(run + 1).log
    /\ exc' = Fresh(run + 1).exc
    /\ calls' = Fresh(run + 1).calls
    /\ exitcode' = Fresh(run + 1).exitcode
    /\ UNCHANGED files

Next ==
    \/ MkdirInput
    \/ MkdirOutput
    \/ MkdirLogs
    \/ BasicConfig
    \/ MainStart
    \/ EnsureSampleCsv
    \/ LogTarget
    \/ MakeSummaryTables
    \/ ExcelWriter
    \/ LoadWorkbook
    \/ WbSave
    \/ LogDone
    \/ LogOk
    \/ ExceptClause
    \/ FinallyClause
    \/ Rerun

Spec == Init /\ [][Next]_vars

-----------------------------------------------------------------------------
(* make_summary_tables on its own, over every small input table *)

Dates == { Date(2026, 2, 1), Date(2026, 1, 15), NaT }
Products == { Banana, Apple, NaN }
Quantities == { 1, 2, 3 }
UnitPrices == { 50 * Scale }

Rows == { Row(dt, p, q, u) : dt \in Dates, p \in Products,
                             q \in Quantities, u \in UnitPrices }

\* main has reached line 164 over a file the user supplied.
InitAgg ==
    /\ pc = "make_summary_tables"
    /\ run = 1
    /\ \/ \E n \in 0..MaxRows : \E t \in [1..n -> Rows] : csv = CsvFile(t, 0)
       \/ csv = BadCsv(0)
    /\ out = AbsentXlsx
    /\ monthly = <<>>
    /\ by_product = <<>>
    /\ total = 0
    /\ wb = EmptyWb
    /\ log = <<"start", "target_csv">>
    /\ exc = "None"
    /\ calls = [NoCalls EXCEPT !.ensure_sample_csv = 1]
    /\ exitcode = 0

NextAgg == MakeSummaryTablesOk \/ MakeSummaryTablesRaise

SpecAgg == InitAgg /\ [][NextAgg]_vars

-----------------------------------------------------------------------------
(* Vocabulary of the properties *)

Count(seq, x) == Cardinality({ i \in 1..Len(seq) : seq[i] = x })

InLog(msg) == \E i \in 1..Len(log) : log[i] = msg

\* make_summary_tables has returned its three results to main.
Returned == calls.make_summary_tables = 1 /\ exc # "make_summary_tables"

\* export_excel has returned to main.
ExportReturned ==
    /\ calls.export_excel = 1
    /\ exc # "export_excel"
    /\ pc \notin {"load_workbook", "wb_save"}

\* Sum of the sales of the input rows whose index is in I.
SalesOf(rows, I) == SumSeq([i \in 1..Len(rows) |-> IF i \in I THEN Sales(rows[i]) ELSE 0])

MonthlySales == [i \in 1..Len(monthly) |-> monthly[i].monthly_sales]
ProductSales == [i \in 1..Len(by_product) |-> by_product[i].product_sales]

Jan2026 == <<50, 48, 50, 54, 45, 48, 49>>     \* "2026-01"
Feb2026 == <<50, 48, 50, 54, 45, 48, 50>>     \* "2026-02"

TwoSheets == Workbook(<<"Monthly", "ByProduct">>, FALSE, 0)

-----------------------------------------------------------------------------
(* C1: reconciliation.  For every input table make_summary_tables accepts,  *)
(* rows with an empty product or date included, the monthly_sales add up   *)
(* to what the product_sales add up to, and both equal the grand total.    *)
(* Refuted under SpecAgg: a row with an empty product is in no product     *)
(* group, so the product_sales miss its sales.                             *)
C1_Reconciliation ==
    Returned =>
        /\ SumSeq(MonthlySales) = SumSeq(ProductSales)
        /\ SumSeq(MonthlySales) = total * Scale

(* C2: row coverage.  Every input row's sales are counted in exactly one   *)
(* monthly row, the one of its year-month, and in exactly one product row, *)
(* the one of its product; each summary has one row per distinct month or  *)
(* product of the input.  Refuted under SpecAgg by a row with an empty     *)
(* product.                                                                *)
C2_RowCoverage ==
    Returned =>
        LET rows == csv.rows
            N == 1..Len(rows)
        IN  /\ \A i \in N :
                 LET m == MonthStr(rows[i].date)
                     p == rows[i].product
                     M == { j \in 1..Len(monthly) : monthly[j].month = m }
                     P == { j \in 1..Len(by_product) : by_product[j].product = p }
                 IN  /\ Cardinality(M) = 1
                     /\ \A j \in M : monthly[j].monthly_sales =
                            SalesOf(rows, { k \in N : MonthStr(rows[k].date) = m })
                     /\ Cardinality(P) = 1
                     /\ \A j \in P : by_product[j].product_sales =
                            SalesOf(rows, { k \in N : rows[k].product = p })
            /\ Len(monthly) = Cardinality({ MonthStr(rows[i].date) : i \in N })
            /\ Len(by_product) = Cardinality({ rows[i].product : i \in N })

(* C3: sort order.  The monthly summary is non-decreasing in month-key     *)
(* string order and the product summary is non-increasing in               *)
(* product_sales.  Holds under SpecAgg.                                    *)
C3_SortOrder ==
    Returned =>
        /\ \A i, j \in 1..Len(monthly) :
               i < j => ~StrLess(monthly[j].month, monthly[i].month)
        /\ \A i, j \in 1..Len(by_product) :
               i < j => by_product[i].product_sales >= by_product[j].product_sales

\* Both sorts had work to do: the months arrive latest first, and the product
\* with the larger sum has the later label.
C3_Witness ==
    /\ Returned
    /\ Len(csv.rows) >= 2
    /\ StrLess(MonthStr(csv.rows[2].date), MonthStr(csv.rows[1].date))
    /\ Len(monthly) >= 2
    /\ Len(by_product) = 2
    /\ by_product[1].product = Banana
    /\ by_product[1].product_sales > by_product[2].product_sales

(* C4, as claimed: the process ends with exit status zero in the success   *)
(* case and in every failure case.  Refuted under Spec: an exception in    *)
(* the module-level mkdir calls or in logging.basicConfig is raised before *)
(* main's try block and ends the process with status 1.                    *)
C4_AlwaysExitZero == pc = "exited" => exitcode = 0

(* C4, amended: once main has started, an exception raised by seeding,     *)
(* loading and aggregation, or export is caught by main's one except       *)
(* clause, logged once, not re-raised, and the process ends with exit      *)
(* status zero, as it does on success.                                     *)
C4_MainFailuresExitZero ==
    (pc = "exited" /\ log # <<>>) =>
        /\ exitcode = 0
        /\ exc # "None" => Count(log, "exception") = 1 /\ ~InLog("ok")
        /\ exc = "None" => Count(log, "exception") = 0

C4_Witness == pc = "exited" /\ exc = "make_summary_tables" /\ exitcode = 0

(* C5: sample seeding never overwrites and is idempotent.  No step of the  *)
(* program changes an input file that exists, and when ensure_sample_csv   *)
(* finds no file and returns, the file holds the seven sample rows; so     *)
(* later runs leave the seeded file as it is.  Holds under Spec.           *)
C5_SeedingNeverOverwrites ==
    [][ /\ csv.exists => csv' = csv
        /\ (pc = "ensure_sample_csv" /\ ~csv.exists /\ pc' = "log_target")
               => (csv'.exists /\ csv'.parsable /\ csv'.rows = SampleRows) ]_vars

\* The second run's ensure_sample_csv has returned over the first run's sample.
C5_Witness ==
    /\ run = 2
    /\ pc = "log_target"
    /\ csv = CsvFile(SampleRows, 1)
    /\ ~InLog("sample_created")

(* C6, as claimed: whenever export_excel has written the output file, the  *)
(* file holds exactly the sheets Summary, Monthly, ByProduct.  Refuted     *)
(* under Spec: the ExcelWriter block writes a file with Monthly and        *)
(* ByProduct only, and Summary is added by the later wb.save.              *)
C6_WrittenFileHasThreeSheets ==
    (out.state = "ok" /\ out.by > 0) => out.wb.sheets = ReportSheets

(* C6, amended: whenever export_excel has returned, the output file holds  *)
(* exactly the sheets Summary, Monthly, ByProduct in that order (styled,   *)
(* with the grand total in Summary!B3).                                    *)
C6_ReturnedExportHasThreeSheets ==
    ExportReturned =>
        /\ out.state = "ok"
        /\ out.by = run
        /\ out.wb.sheets = ReportSheets
        /\ out.wb.styled
        /\ out.wb.B3 = total

C6_Witness == ExportReturned /\ pc = "log_done" /\ total > 0

(* C7: empty input.  On a file with the header row and no transaction      *)
(* rows make_summary_tables raises nothing and returns an empty monthly    *)
(* summary, an empty product summary and a grand total of 0.  Holds under  *)
(* SpecAgg.                                                                *)
C7_EmptyInput ==
    (csv.parsable /\ csv.rows = <<>> /\ calls.make_summary_tables = 1) =>
        /\ exc = "None"
        /\ pc = "ExcelWriter"
        /\ monthly = <<>>
        /\ by_product = <<>>
        /\ total = 0

C7_Witness ==
    csv.parsable /\ csv.rows = <<>> /\ calls.make_summary_tables = 1 /\ Returned

(* C8: the seeded sample.  In a run that seeded the input file,            *)
(* make_summary_tables returns the monthly summary 2026-01 -> 1500,        *)
(* 2026-02 -> 780, the product summary Apple 840, Banana 800, Orange 640,  *)
(* in these orders, and the grand total 2280.  Holds under Spec.           *)
C8_SampleScenario ==
    (InLog("sample_created") /\ Returned) =>
        /\ monthly = << [month |-> Jan2026, monthly_sales |-> 1500 * Scale],
                        [month |-> Feb2026, monthly_sales |-> 780 * Scale] >>
        /\ by_product = << [product |-> Apple,  product_sales |-> 840 * Scale],
                           [product |-> Banana, product_sales |-> 800 * Scale],
                           [product |-> Orange, product_sales |-> 640 * Scale] >>
        /\ total = 2280

C8_Witness == InLog("sample_created") /\ Returned /\ run = 1

\* The output path holds a readable report of this run that is not the whole report.
PartialReport == out.by = run /\ out.state = "ok" /\ out.wb.sheets # ReportSheets

(* C9, as claimed: in a failed run each stage has been attempted at most   *)
(* once and the output path does not hold a partially produced report.     *)
(* Refuted under Spec: a failure after the ExcelWriter block leaves the    *)
(* file with Monthly and ByProduct, unstyled and without Summary.          *)
C9_NoPartialOutput ==
    exc # "None" =>
        /\ \A f \in DOMAIN calls : calls[f] <= 1
        /\ ~PartialReport

(* C9, amended: a failed run retries nothing, each stage being attempted   *)
(* at most once; a failure before export_excel leaves the output path      *)
(* unwritten, and a failure inside export_excel can leave it holding the   *)
(* unstyled two-sheet workbook (Monthly, ByProduct, no Summary) or a       *)
(* truncated file, never the whole report of this run.                     *)
C9_FailedRunOutput ==
    exc # "None" =>
        /\ \A f \in DOMAIN calls : calls[f] <= 1
        /\ out.by = run =>
              /\ exc = "export_excel"
              /\ out.state = "corrupt" \/ (out.state = "ok" /\ out.wb = TwoSheets)

C9_Witness == pc = "exited" /\ exc = "export_excel" /\ out = XlsxFile(TwoSheets, run)

(* C10: order of a run.  The stages run in the order seed, load/aggregate, *)
(* export, each only after the one before returned without error; the      *)
(* start line is logged first and the end line last; between them exactly  *)
(* one of the success and the failure message is logged, and the success   *)
(* message only after export_excel returned from the final save.  Holds    *)
(* under Spec.                                                             *)
C10_RunOrder ==
    /\ \A f \in DOMAIN calls : calls[f] <= 1
    /\ calls.make_summary_tables = 1 =>
           calls.ensure_sample_csv = 1 /\ exc # "ensure_sample_csv"
    /\ calls.export_excel = 1 =>
           calls.make_summary_tables = 1
               /\ exc \notin {"ensure_sample_csv", "make_summary_tables"}
    /\ calls.ensure_sample_csv = 1 => log # <<>>
    /\ log # <<>> => log[1] = "start" /\ Count(log, "start") = 1
    /\ \A i \in 1..Len(log) : log[i] = "end" => (i = Len(log) /\ pc = "exited")
    /\ Count(log, "ok") + Count(log, "exception") <= 1
    /\ (pc = "exited" /\ log # <<>>) =>
           /\ log[Len(log)] = "end"
           /\ Count(log, "ok") + Count(log, "exception") = 1
    /\ InLog("ok") =>
           /\ exc = "None"
           /\ \A f \in DOMAIN calls : calls[f] = 1
           /\ out = XlsxFile(wb, run)
           /\ wb.sheets = ReportSheets

C10_Witness == pc = "exited" /\ InLog("ok") /\ run = 2

====
